---- MODULE Spec2Model ----
(***************************************************************************)
(* Model of homeassistant/components/climate/ecobee.py: the Thermostat     *)
(* climate entity (read model, update(), command methods) and the two      *)
(* platform services registered by setup_platform.                         *)
(*                                                                         *)
(* Representation:                                                         *)
(*   - Python None is the empty tuple, a present value x is <<x>>.         *)
(*   - Python floats holding degrees are kept in tenths of a degree, so    *)
(*     actualTemperature / 10 is the raw tenths value and int(x) is        *)
(*     truncation toward zero of the tenths value (IntOfTenths).           *)
(*   - The ecobee client (data.ecobee) is external: its command methods    *)
(*     are recorded as requests; data.update() may raise.                  *)
(***************************************************************************)
EXTENDS Integers, Sequences, FiniteSets, TLC

\* ------------------------------------------------------------------ bounds
MaxEvents == 2

\* --------------------------------------------------------------- constants
STATE_AUTO == "auto"
STATE_HEAT == "heat"
STATE_COOL == "cool"
DEFAULT_RESUME_ALL == FALSE

None == <<>>
Some(x) == <<x>>

\* ------------------------------------------------------ python conversions
\* int(x) of a float x kept in tenths: truncation toward zero.
IntOfTenths(t) == IF t >= 0 THEN t \div 10 ELSE -((-t) \div 10)

DigitStr(d) ==
  CASE d = 0 -> "0" [] d = 1 -> "1" [] d = 2 -> "2" [] d = 3 -> "3"
    [] d = 4 -> "4" [] d = 5 -> "5" [] d = 6 -> "6" [] d = 7 -> "7"
    [] d = 8 -> "8" [] d = 9 -> "9"

RECURSIVE NatStr(_)
NatStr(n) == IF n < 10 THEN DigitStr(n) ELSE NatStr(n \div 10) \o DigitStr(n % 10)

\* str(n) for an int n.
Str(n) == IF n < 0 THEN "-" \o NatStr(-n) ELSE NatStr(n)

\* str(b).lower() for a bool b.
StrLowerBool(b) == IF b THEN "true" ELSE "false"

\* ------------------------------------------------------------ the platform
\* devices built by setup_platform, in index order, named by entity id.
devices == <<"climate.upstairs", "climate.downstairs">>

Indexes == 0 .. (Len(devices) - 1)

entity_id(i) == devices[i + 1]

\* ------------------------------------------------------- vendor snapshots
HvacModes == {"auto", "auxHeatOnly", "heatPump", "cool", "heat", "off"}

EventTypes == {"hold", "autoAway", "autoHome"}

ClimateRefs == {"", "away", "home"}

Events == [type : EventTypes, running : BOOLEAN, holdClimateRef : ClimateRefs]

RECURSIVE SeqsUpTo(_, _)
SeqsUpTo(S, n) ==
  IF n = 0 THEN {<<>>}
  ELSE LET shorter == SeqsUpTo(S, n - 1)
       IN shorter \cup {Append(s, e) : s \in {x \in shorter : Len(x) = n - 1}, e \in S}

EventLists == SeqsUpTo(Events, MaxEvents)

Ev(type, running, ref) == [type |-> type, running |-> running, holdClimateRef |-> ref]

\* Event lists the command model samples the vendor feed from: no hold, a
\* temperature hold, an away hold that coexists with a temperature hold, and
\* a home climate hold.
FeedEventLists ==
  { <<>>,
    <<Ev("hold", TRUE, "")>>,
    <<Ev("hold", TRUE, ""), Ev("autoAway", TRUE, "")>>,
    <<Ev("hold", TRUE, "home")>> }

Snapshot(mode, temp, events, holdAction) ==
  [settings |-> [hvacMode |-> mode, holdAction |-> holdAction],
   runtime  |-> [actualTemperature |-> temp, desiredHeat |-> 685, desiredCool |-> 745],
   events   |-> events]

\* Snapshots the vendor feed delivers in the command model: every hvac mode
\* without a hold, the sampled holds under heat, cool, auto and off, and two
\* readings below zero (where int() and floor differ) on a device whose holds
\* are indefinite.
FeedSnapshots ==
  { Snapshot(m, 725, <<>>, "askMe") : m \in HvacModes }
    \cup { Snapshot(m, 725, e, "askMe") : m \in {"heat", "cool", "auto", "off"},
                                           e \in FeedEventLists }
    \cup { Snapshot(m, -15, <<>>, "indefinite") : m \in {"heat", "off"} }

\* Snapshots of the read model: every event list up to MaxEvents.
ReadSnapshots ==
  { Snapshot(m, 725, e, h) : m \in HvacModes, e \in EventLists, h \in {"indefinite"} }

\* ------------------------------------------------------------- read model
\* any(...) over the values a generator yields, scanned left to right.
RECURSIVE any(_)
any(values) ==
  IF values = <<>> THEN FALSE
  ELSE IF Head(values) THEN TRUE ELSE any(Tail(values))

current_temperature(t) == t.runtime.actualTemperature

operation_mode(t) == t.settings.hvacMode

current_operation(t) ==
  IF operation_mode(t) = "auxHeatOnly" \/ operation_mode(t) = "heatPump"
  THEN STATE_HEAT
  ELSE operation_mode(t)

target_temperature_low(t) ==
  IF current_operation(t) = STATE_AUTO
  THEN Some(IntOfTenths(t.runtime.desiredHeat))
  ELSE None

target_temperature_high(t) ==
  IF current_operation(t) = STATE_AUTO
  THEN Some(IntOfTenths(t.runtime.desiredCool))
  ELSE None

\* Faulty variant: the cool branch taken for every operation that is not heat.
target_temperature_no_cool_test(t) ==
  IF current_operation(t) = STATE_AUTO THEN None
  ELSE IF current_operation(t) = STATE_HEAT
       THEN Some(IntOfTenths(t.runtime.desiredHeat))
       ELSE Some(IntOfTenths(t.runtime.desiredCool))

target_temperature(t) ==
  IF current_operation(t) = STATE_AUTO THEN None
  ELSE IF current_operation(t) = STATE_HEAT
       THEN Some(IntOfTenths(t.runtime.desiredHeat))
       ELSE IF current_operation(t) = STATE_COOL
            THEN Some(IntOfTenths(t.runtime.desiredCool))
            ELSE None

is_temp_hold_on(t) ==
  LET events == t.events
  IN any([k \in DOMAIN events |-> events[k].type = "hold" /\ events[k].running])

is_away_mode_on(t) ==
  LET events == t.events
  IN any([k \in DOMAIN events |->
            events[k].holdClimateRef = "away" \/ events[k].type = "autoAway"])

is_home_mode_on(t) ==
  LET events == t.events
  IN any([k \in DOMAIN events |->
            events[k].holdClimateRef = "home" \/ events[k].type = "autoHome"])

\* Faulty variant: the temperature hold tested before away and home.
current_hold_mode_temp_first(t) ==
  IF is_temp_hold_on(t) THEN Some("temp")
  ELSE IF is_away_mode_on(t) THEN Some("away")
       ELSE IF is_home_mode_on(t) THEN Some("home")
            ELSE None

current_hold_mode(t) ==
  IF is_away_mode_on(t) THEN Some("away")
  ELSE IF is_home_mode_on(t) THEN Some("home")
       ELSE IF is_temp_hold_on(t) THEN Some("temp")
            ELSE None

hold_preference(t) ==
  LET default == t.settings.holdAction
  IN IF default = "nextTransition" THEN default
     ELSE IF default = "indefinite" THEN default
          ELSE "nextTransition"

\* ---------------------------------------------------------------- commands
\* One call on the ecobee client.
Request(method, index, args) == [method |-> method, index |-> index, args |-> args]

\* What one command method does: the client calls it makes, whether it
\* assigns update_without_throttle = True, whether it raises, and whether it
\* logs an error.
Effect(requests, flag, raised, logged) ==
  [requests |-> requests, flag |-> flag, raised |-> raised, logged |-> logged]

turn_away_mode_on(t, index) ==
  Effect(<<Request("set_climate_hold", index, <<"away", hold_preference(t)>>)>>,
         TRUE, FALSE, FALSE)

turn_home_mode_on(t, index) ==
  Effect(<<Request("set_climate_hold", index, <<"home", hold_preference(t)>>)>>,
         TRUE, FALSE, FALSE)

set_auto_temp_hold(t, index, heat_temp, cool_temp) ==
  Effect(<<Request("set_hold_temp", index, <<cool_temp, heat_temp, hold_preference(t)>>)>>,
         TRUE, FALSE, FALSE)

\* Faulty variant: the cool band built upward from temp.
set_temp_hold_cool_band_up(t, index, temp) ==
  IF current_operation(t) = STATE_HEAT
  THEN Effect(<<Request("set_hold_temp", index, <<temp + 20, temp, hold_preference(t)>>)>>,
              TRUE, FALSE, FALSE)
  ELSE IF current_operation(t) = STATE_COOL
       THEN Effect(<<Request("set_hold_temp", index, <<temp, temp + 20, hold_preference(t)>>)>>,
                   TRUE, FALSE, FALSE)
       ELSE Effect(<<>>, FALSE, TRUE, FALSE)

\* Faulty variant: a final else branch that treats every other operation as cool.
set_temp_hold_else_cool(t, index, temp) ==
  IF current_operation(t) = STATE_HEAT
  THEN Effect(<<Request("set_hold_temp", index, <<temp + 20, temp, hold_preference(t)>>)>>,
              TRUE, FALSE, FALSE)
  ELSE Effect(<<Request("set_hold_temp", index, <<temp, temp - 20, hold_preference(t)>>)>>,
              TRUE, FALSE, FALSE)

\* heat_temp and cool_temp are bound only under heat and cool; otherwise the
\* argument list of set_hold_temp raises UnboundLocalError before the call.
set_temp_hold(t, index, temp) ==
  IF current_operation(t) = STATE_HEAT
  THEN Effect(<<Request("set_hold_temp", index, <<temp + 20, temp, hold_preference(t)>>)>>,
              TRUE, FALSE, FALSE)
  ELSE IF current_operation(t) = STATE_COOL
       THEN Effect(<<Request("set_hold_temp", index, <<temp, temp - 20, hold_preference(t)>>)>>,
                   TRUE, FALSE, FALSE)
       ELSE Effect(<<>>, FALSE, TRUE, FALSE)

\* Faulty variant: no early return when the hold mode is already the requested one.
set_hold_mode_no_early_return(t, index, hold_mode) ==
  IF hold_mode = Some("away") THEN turn_away_mode_on(t, index)
  ELSE IF hold_mode = Some("home") THEN turn_home_mode_on(t, index)
  ELSE IF hold_mode = Some("temp")
       THEN set_temp_hold(t, index, IntOfTenths(current_temperature(t)))
       ELSE Effect(<<Request("resume_program", index, <<>>)>>, TRUE, FALSE, FALSE)

set_hold_mode(t, index, hold_mode) ==
  LET hold == current_hold_mode(t)
  IN IF hold = hold_mode THEN Effect(<<>>, FALSE, FALSE, FALSE)
     ELSE IF hold_mode = Some("away") THEN turn_away_mode_on(t, index)
     ELSE IF hold_mode = Some("home") THEN turn_home_mode_on(t, index)
     ELSE IF hold_mode = Some("temp")
          THEN set_temp_hold(t, index, IntOfTenths(current_temperature(t)))
          ELSE Effect(<<Request("resume_program", index, <<>>)>>, TRUE, FALSE, FALSE)

turn_away_mode_off(t, index) == set_hold_mode(t, index, None)

\* Faulty variant: update_without_throttle assigned on the error branch too.
set_temperature_flag_on_error(t, index, kwargs) ==
  LET low_temp  == kwargs.low
      high_temp == kwargs.high
      temp      == kwargs.temp
  IN IF current_operation(t) = STATE_AUTO /\ low_temp # None /\ high_temp # None
     THEN set_auto_temp_hold(t, index, IntOfTenths(low_temp[1]), IntOfTenths(high_temp[1]))
     ELSE IF temp # None
          THEN set_temp_hold(t, index, IntOfTenths(temp[1]))
          ELSE Effect(<<>>, TRUE, FALSE, TRUE)

\* kwargs is [low |-> ..., high |-> ..., temp |-> ...], each None or Some(x):
\* the values of kwargs.get(ATTR_TARGET_TEMP_LOW), (..._HIGH), (ATTR_TEMPERATURE).
set_temperature(t, index, kwargs) ==
  LET low_temp  == kwargs.low
      high_temp == kwargs.high
      temp      == kwargs.temp
  IN IF current_operation(t) = STATE_AUTO /\ low_temp # None /\ high_temp # None
     THEN set_auto_temp_hold(t, index, IntOfTenths(low_temp[1]), IntOfTenths(high_temp[1]))
     ELSE IF temp # None
          THEN set_temp_hold(t, index, IntOfTenths(temp[1]))
          ELSE Effect(<<>>, FALSE, FALSE, TRUE)

\* Faulty variant: the request goes out but the flag is not assigned.
set_operation_mode_no_flag(t, index, mode) ==
  Effect(<<Request("set_hvac_mode", index, <<mode>>)>>, FALSE, FALSE, FALSE)

set_operation_mode(t, index, mode) ==
  Effect(<<Request("set_hvac_mode", index, <<mode>>)>>, TRUE, FALSE, FALSE)

set_fan_min_on_time(t, index, fan_min_on_time) ==
  Effect(<<Request("set_fan_min_on_time", index, <<fan_min_on_time>>)>>,
         TRUE, FALSE, FALSE)

resume_program(t, index, resume_all) ==
  Effect(<<Request("resume_program", index, <<StrLowerBool(resume_all)>>)>>,
         TRUE, FALSE, FALSE)

\* ------------------------------------------------------------------- state
VARIABLES
  thermostat,               \* index -> the cached snapshot (self.thermostat)
  update_without_throttle,  \* index -> the deferred-refresh flag
  last                      \* the operation just performed and what it did

vars == <<thermostat, update_without_throttle, last>>

\* The record of one operation: which method on which adapter (-1: a platform
\* service), its arguments, the client requests it issued in order, whether it
\* raised, whether it logged an error, which fetch update() made, every call it
\* made in order (client requests and schedule_update_ha_state), and a
\* getter's value.
Op(op, dev, arg, requests, raised, logged, fetch, calls, result) ==
  [op |-> op, dev |-> dev, arg |-> arg, requests |-> requests, raised |-> raised,
   logged |-> logged, fetch |-> fetch, calls |-> calls, result |-> result]

\* Thermostat.__init__ for every index, before any operation.
Init ==
  /\ thermostat \in [Indexes -> {Snapshot("heat", 725, <<>>, "askMe")}]
  /\ update_without_throttle = [i \in Indexes |-> FALSE]
  /\ last = Op("__init__", -1, <<>>, <<>>, FALSE, FALSE, "none", <<>>, None)

\* A command method called on adapter i: the requests go out and the flag is
\* assigned when the method reaches that line; the snapshot is never touched.
Command(name, i, arg, effect) ==
  /\ update_without_throttle' =
       [update_without_throttle EXCEPT ![i] = IF effect.flag THEN TRUE ELSE @]
  /\ last' = Op(name, i, arg, effect.requests, effect.raised, effect.logged,
                "none", effect.requests, None)
  /\ UNCHANGED thermostat

\* ------------------------------------------------------------------ inputs
HoldModeArgs == {Some("away"), Some("home"), Some("temp"), Some("sleep"), None}

TempArgs == {15, 70}

KwargsArgs == [low : {None, Some(605)}, high : {None, Some(805)}, temp : {None, Some(705)}]

OperationModeArgs == {"heat", "off"}

FanMinutes == {10}

TargetIdArgs ==
  { None, Some({}), Some({devices[1]}), Some({devices[2], "climate.other"}),
    Some({devices[1], devices[2]}), Some({"climate.other"}) }

\* ----------------------------------------------------------------- actions
\* Faulty variant: the flag cleared before the unthrottled fetch is attempted.
Update_clear_before_fetch(i) ==
  \E ok \in BOOLEAN, fresh \in FeedSnapshots :
    /\ ok \/ fresh = thermostat[i]
    /\ IF update_without_throttle[i]
       THEN /\ update_without_throttle' = [update_without_throttle EXCEPT ![i] = FALSE]
            /\ last' = Op("update", i, <<>>, <<>>, ~ok, FALSE, "no_throttle", <<>>, None)
       ELSE /\ UNCHANGED update_without_throttle
            /\ last' = Op("update", i, <<>>, <<>>, ~ok, FALSE, "throttled", <<>>, None)
    /\ thermostat' = [thermostat EXCEPT ![i] = IF ok THEN fresh ELSE @]

Update(i) ==
  \E ok \in BOOLEAN, fresh \in FeedSnapshots :
    /\ ok \/ fresh = thermostat[i]
    /\ IF update_without_throttle[i]
       THEN /\ update_without_throttle' =
                 [update_without_throttle EXCEPT ![i] = IF ok THEN FALSE ELSE @]
            /\ last' = Op("update", i, <<>>, <<>>, ~ok, FALSE, "no_throttle", <<>>, None)
       ELSE /\ UNCHANGED update_without_throttle
            /\ last' = Op("update", i, <<>>, <<>>, ~ok, FALSE, "throttled", <<>>, None)
    /\ thermostat' = [thermostat EXCEPT ![i] = IF ok THEN fresh ELSE @]

TurnAwayModeOn(i) ==
  Command("turn_away_mode_on", i, <<>>, turn_away_mode_on(thermostat[i], i))

TurnAwayModeOff(i) ==
  Command("turn_away_mode_off", i, <<>>, turn_away_mode_off(thermostat[i], i))

TurnHomeModeOn(i) ==
  Command("turn_home_mode_on", i, <<>>, turn_home_mode_on(thermostat[i], i))

SetHoldMode(i) ==
  \E hold_mode \in HoldModeArgs :
    Command("set_hold_mode", i, <<hold_mode>>, set_hold_mode(thermostat[i], i, hold_mode))

SetAutoTempHold(i) ==
  Command("set_auto_temp_hold", i, <<60, 80>>, set_auto_temp_hold(thermostat[i], i, 60, 80))

SetTempHold(i) ==
  \E temp \in TempArgs :
    Command("set_temp_hold", i, <<temp>>, set_temp_hold(thermostat[i], i, temp))

SetTemperature(i) ==
  \E kwargs \in KwargsArgs :
    Command("set_temperature", i, <<kwargs>>, set_temperature(thermostat[i], i, kwargs))

SetOperationMode(i) ==
  \E mode \in OperationModeArgs :
    Command("set_operation_mode", i, <<mode>>, set_operation_mode(thermostat[i], i, mode))

SetFanMinOnTime(i) ==
  \E m \in FanMinutes :
    Command("set_fan_min_on_time", i, <<Str(m)>>,
            set_fan_min_on_time(thermostat[i], i, Str(m)))

ResumeProgram(i) ==
  \E resume_all \in BOOLEAN :
    Command("resume_program", i, <<resume_all>>,
            resume_program(thermostat[i], i, resume_all))

\* ---------------------------------------------------------------- services
\* Faulty variant: an empty entity id list addresses no adapter (tested against None
\* only).
target_thermostats_is_not_none(target_ids) ==
  IF target_ids # None
  THEN SelectSeq([k \in 1 .. Len(devices) |-> k - 1],
                 LAMBDA i : entity_id(i) \in target_ids[1])
  ELSE [k \in 1 .. Len(devices) |-> k - 1]

\* The adapters a service call addresses, in the order of devices.
target_thermostats(target_ids) ==
  IF target_ids # None /\ target_ids[1] # {}
  THEN SelectSeq([k \in 1 .. Len(devices) |-> k - 1],
                 LAMBDA i : entity_id(i) \in target_ids[1])
  ELSE [k \in 1 .. Len(devices) |-> k - 1]

\* for thermostat in target_thermostats: command, then
\* schedule_update_ha_state(True).  command[i] is what the command method does
\* on adapter i; acc carries the flags, the client requests and the whole
\* call trace so far.
RECURSIVE ServiceLoop(_, _, _)
ServiceLoop(targets, command, acc) ==
  IF targets = <<>> THEN acc
  ELSE LET i == Head(targets)
           effect == command[i]
       IN ServiceLoop(Tail(targets), command,
            [flags     |-> [acc.flags EXCEPT ![i] = IF effect.flag THEN TRUE ELSE @],
             requests  |-> acc.requests \o effect.requests,
             calls     |-> acc.calls \o effect.requests
                            \o <<Request("schedule_update_ha_state", i, <<TRUE>>)>>])

Service(name, arg, target_ids, command) ==
  LET done == ServiceLoop(target_thermostats(target_ids), command,
                [flags |-> update_without_throttle, requests |-> <<>>, calls |-> <<>>])
  IN /\ update_without_throttle' = done.flags
     /\ last' = Op(name, -1, arg, done.requests, FALSE, FALSE, "none", done.calls, None)
     /\ UNCHANGED thermostat

fan_min_on_time_set_service ==
  \E target_ids \in TargetIdArgs, fan_min_on_time \in FanMinutes :
    Service("fan_min_on_time_set_service", <<target_ids, fan_min_on_time>>, target_ids,
            [i \in Indexes |-> set_fan_min_on_time(thermostat[i], i, Str(fan_min_on_time))])

resume_program_set_service ==
  \E target_ids \in TargetIdArgs, resume_all \in BOOLEAN :
    Service("resume_program_set_service", <<target_ids, resume_all>>, target_ids,
            [i \in Indexes |-> resume_program(thermostat[i], i, resume_all)])

Next ==
  \/ \E i \in Indexes : Update(i)
  \/ \E i \in Indexes : TurnAwayModeOn(i)
  \/ \E i \in Indexes : TurnAwayModeOff(i)
  \/ \E i \in Indexes : TurnHomeModeOn(i)
  \/ \E i \in Indexes : SetHoldMode(i)
  \/ \E i \in Indexes : SetAutoTempHold(i)
  \/ \E i \in Indexes : SetTempHold(i)
  \/ \E i \in Indexes : SetTemperature(i)
  \/ \E i \in Indexes : SetOperationMode(i)
  \/ \E i \in Indexes : SetFanMinOnTime(i)
  \/ \E i \in Indexes : ResumeProgram(i)
  \/ fan_min_on_time_set_service
  \/ resume_program_set_service

Spec == Init /\ [][Next]_vars

\* ------------------------------------------------------- read-model checks
\* The adapters hold one arbitrary snapshot; the actions are the property
\* getters, which record their value and change nothing else.
InitRead ==
  /\ thermostat \in {[i \in Indexes |-> s] : s \in ReadSnapshots}
  /\ update_without_throttle = [i \in Indexes |-> FALSE]
  /\ last = Op("__init__", -1, <<>>, <<>>, FALSE, FALSE, "none", <<>>, None)

Getter(name, i, value) ==
  /\ last' = Op(name, i, <<>>, <<>>, FALSE, FALSE, "none", <<>>, <<value>>)
  /\ UNCHANGED <<thermostat, update_without_throttle>>

GetCurrentHoldMode(i) == Getter("current_hold_mode", i, current_hold_mode(thermostat[i]))

GetCurrentOperation(i) == Getter("current_operation", i, current_operation(thermostat[i]))

GetTargetTemperature(i) == Getter("target_temperature", i, target_temperature(thermostat[i]))

GetTargetTemperatureLow(i) ==
  Getter("target_temperature_low", i, target_temperature_low(thermostat[i]))

GetTargetTemperatureHigh(i) ==
  Getter("target_temperature_high", i, target_temperature_high(thermostat[i]))

NextRead ==
  \/ \E i \in Indexes : GetCurrentHoldMode(i)
  \/ \E i \in Indexes : GetCurrentOperation(i)
  \/ \E i \in Indexes : GetTargetTemperature(i)
  \/ \E i \in Indexes : GetTargetTemperatureLow(i)
  \/ \E i \in Indexes : GetTargetTemperatureHigh(i)

SpecRead == InitRead /\ [][NextRead]_vars

TypeOK ==
  /\ update_without_throttle \in [Indexes -> BOOLEAN]
  /\ last.fetch \in {"none", "throttled", "no_throttle"}

\* ================================================================== claims
CommandMethods ==
  { "set_hold_mode", "turn_away_mode_on", "turn_away_mode_off", "turn_home_mode_on",
    "set_auto_temp_hold", "set_temp_hold", "set_temperature", "set_operation_mode",
    "set_fan_min_on_time", "resume_program" }

ServiceNames == {"fan_min_on_time_set_service", "resume_program_set_service"}

\* floor(x) of a float x kept in tenths.
FloorOfTenths(t) == t \div 10

\* The hvac modes under which current_operation is heat, and cool.
HeatModes == {"heat", "auxHeatOnly", "heatPump"}

\* C1 (as stated): after any command method runs the deferred-refresh flag is
\* true; the next update() leaves it false and fetched with no_throttle=True.
C1_AsStated ==
  [][ /\ (last'.op \in CommandMethods => update_without_throttle'[last'.dev])
      /\ (last'.op = "update" /\ update_without_throttle[last'.dev]
            => /\ ~update_without_throttle'[last'.dev]
               /\ last'.fetch = "no_throttle") ]_vars

\* C1 (amended): after a command method that issued a vendor request the flag
\* is true, and a command method that issued none leaves the flag as it was; a
\* set flag stays set through every step that is not that adapter's update();
\* an update() that finds the flag set fetches with no_throttle=True and, when
\* the fetch completes, leaves the flag false.
C1_FlagSetByRequestAndConsumedByUpdate ==
  [][ /\ (last'.op \in CommandMethods /\ last'.requests # <<>>
            => update_without_throttle'[last'.dev])
      /\ (last'.op \in CommandMethods /\ last'.requests = <<>>
            => update_without_throttle' = update_without_throttle)
      /\ \A i \in Indexes :
           (update_without_throttle[i] /\ ~(last'.op = "update" /\ last'.dev = i))
             => update_without_throttle'[i]
      /\ (last'.op = "update" /\ update_without_throttle[last'.dev]
            => /\ last'.fetch = "no_throttle"
               /\ (~last'.raised => ~update_without_throttle'[last'.dev])) ]_vars

\* A forced update() has completed and cleared the flag.
C1_Witness ==
  /\ last.op = "update"
  /\ last.fetch = "no_throttle"
  /\ ~last.raised
  /\ ~update_without_throttle[last.dev]

\* C2: set_hold_mode(h) with h the adapter's current hold mode issues no
\* vendor request.
C2_SameHoldModeIssuesNothing ==
  (last.op = "set_hold_mode" /\ last.arg[1] = current_hold_mode(thermostat[last.dev]))
    => last.requests = <<>> /\ last.calls = <<>>

\* set_hold_mode('temp') was called while a temperature hold was the hold mode.
C2_Witness ==
  /\ last.op = "set_hold_mode"
  /\ last.arg[1] = Some("temp")
  /\ current_hold_mode(thermostat[last.dev]) = Some("temp")
  /\ last.requests = <<>>

\* Membership tests on an event list, independent of its order.
AwayIn(events) ==
  \E k \in DOMAIN events : events[k].holdClimateRef = "away" \/ events[k].type = "autoAway"

HomeIn(events) ==
  \E k \in DOMAIN events : events[k].holdClimateRef = "home" \/ events[k].type = "autoHome"

RunningHoldIn(events) ==
  \E k \in DOMAIN events : events[k].type = "hold" /\ events[k].running

Precedence(events) ==
  IF AwayIn(events) THEN Some("away")
  ELSE IF HomeIn(events) THEN Some("home")
  ELSE IF RunningHoldIn(events) THEN Some("temp")
  ELSE None

Reverse(q) == [k \in 1 .. Len(q) |-> q[Len(q) + 1 - k]]

\* C3: current_hold_mode follows the precedence away > home > temp > none on
\* every event list, whatever the order of the events.
C3_HoldModePrecedence ==
  last.op = "current_hold_mode" =>
    LET t == thermostat[last.dev]
    IN /\ last.result[1] = Precedence(t.events)
       /\ last.result[1] = current_hold_mode([t EXCEPT !.events = Reverse(t.events)])
       /\ (AwayIn(t.events) /\ RunningHoldIn(t.events) => last.result[1] = Some("away"))

\* current_hold_mode read 'away' on [autoAway running, hold running].
C3_Witness ==
  /\ last.op = "current_hold_mode"
  /\ thermostat[last.dev].events = <<Ev("autoAway", TRUE, ""), Ev("hold", TRUE, "")>>
  /\ last.result[1] = Some("away")

\* C4: set_hold_mode(target) with target other than the current hold mode
\* issues exactly one vendor request: climate hold "away" for away, climate
\* hold "home" for home, a setpoint hold around floor(current_temperature)
\* for temp, resume_program for this index for anything else.
C4_OneRequestPerTarget ==
  (last.op = "set_hold_mode" /\ last.arg[1] # current_hold_mode(thermostat[last.dev]))
    => LET t == thermostat[last.dev]
           target == last.arg[1]
           r == last.requests[1]
       IN /\ Len(last.requests) = 1
          /\ ~last.raised
          /\ r.index = last.dev
          /\ IF target = Some("away")
               THEN r.method = "set_climate_hold" /\ r.args[1] = "away"
             ELSE IF target = Some("home")
               THEN r.method = "set_climate_hold" /\ r.args[1] = "home"
             ELSE IF target = Some("temp")
               THEN /\ r.method = "set_hold_temp"
                    /\ FloorOfTenths(current_temperature(t)) \in {r.args[1], r.args[2]}
             ELSE r.method = "resume_program"

\* C5: set_temp_hold(temp) under heat (raw heat, auxHeatOnly, heatPump) sends
\* one set_hold_temp with heatTemp = temp and coolTemp = temp + 20, under cool
\* one with heatTemp = temp - 20 and coolTemp = temp; every request it issues
\* has heatTemp <= coolTemp and coolTemp - heatTemp = 20.
C5_TempHoldBand ==
  last.op = "set_temp_hold" =>
    LET mode == thermostat[last.dev].settings.hvacMode
        temp == last.arg[1]
    IN /\ mode \in HeatModes =>
            /\ Len(last.requests) = 1
            /\ last.requests[1].method = "set_hold_temp"
            /\ last.requests[1].index = last.dev
            /\ last.requests[1].args[2] = temp
            /\ last.requests[1].args[1] = temp + 20
       /\ mode = "cool" =>
            /\ Len(last.requests) = 1
            /\ last.requests[1].method = "set_hold_temp"
            /\ last.requests[1].index = last.dev
            /\ last.requests[1].args[2] = temp - 20
            /\ last.requests[1].args[1] = temp
       /\ \A k \in DOMAIN last.requests :
            /\ last.requests[k].args[2] <= last.requests[k].args[1]
            /\ last.requests[k].args[1] - last.requests[k].args[2] = 20

\* set_temp_hold(70) under heatPump sent the band 70..90.
C5_Witness ==
  /\ last.op = "set_temp_hold"
  /\ last.arg[1] = 70
  /\ thermostat[last.dev].settings.hvacMode = "heatPump"
  /\ Len(last.requests) = 1
  /\ last.requests[1].args[1] = 90
  /\ last.requests[1].args[2] = 70

\* C6: set_temperature with no single target temperature and without a
\* complete low/high pair issues no vendor request, leaves the snapshot and
\* the flag as they were, logs an error and returns normally.
C6_MissingArgumentsOnlyLog ==
  [][ (/\ last'.op = "set_temperature"
       /\ last'.arg[1].temp = None
       /\ (last'.arg[1].low = None \/ last'.arg[1].high = None))
        => /\ last'.requests = <<>>
           /\ last'.calls = <<>>
           /\ last'.logged
           /\ ~last'.raised
           /\ thermostat' = thermostat
           /\ update_without_throttle' = update_without_throttle ]_vars

\* set_temperature() with no relevant key ran in auto and logged the error.
C6_Witness ==
  /\ last.op = "set_temperature"
  /\ last.arg[1] = [low |-> None, high |-> None, temp |-> None]
  /\ thermostat[last.dev].settings.hvacMode = "auto"
  /\ last.logged

\* C7 (as stated): target_temperature is None exactly when current_operation
\* is auto; target_temperature_low and _high are present exactly when it is.
C7_AsStated ==
  LET auto == thermostat[last.dev].settings.hvacMode = "auto"
  IN /\ last.op = "target_temperature" => (last.result[1] = None <=> auto)
     /\ last.op = "target_temperature_low" => (last.result[1] # None <=> auto)
     /\ last.op = "target_temperature_high" => (last.result[1] # None <=> auto)

\* C7 (amended): target_temperature is None exactly when current_operation is
\* neither heat nor cool (so always under auto); target_temperature_low and
\* _high are present exactly when current_operation is auto.
C7_TargetPresence ==
  LET mode == thermostat[last.dev].settings.hvacMode
  IN /\ last.op = "target_temperature" =>
          (last.result[1] = None <=> mode \notin HeatModes \cup {"cool"})
     /\ last.op = "target_temperature_low" => (last.result[1] # None <=> mode = "auto")
     /\ last.op = "target_temperature_high" => (last.result[1] # None <=> mode = "auto")

\* target_temperature read None while the thermostat was off.
C7_Witness ==
  /\ last.op = "target_temperature"
  /\ thermostat[last.dev].settings.hvacMode = "off"
  /\ last.result[1] = None

\* The adapters a service call with target set S addresses.
Addressed(S) ==
  IF S = None \/ S = Some({}) THEN Indexes
  ELSE {i \in Indexes : devices[i + 1] \in S[1]}

\* C8: a platform service call runs its command exactly once on each
\* addressed adapter (all of them when the target set is unset or empty),
\* each followed by a forced refresh request for that adapter; the other
\* adapters get no request and keep their snapshot and flag.
C8_ServiceFanOut ==
  [][ last'.op \in ServiceNames =>
        LET S == last'.arg[1]
            calls == last'.calls
            method == IF last'.op = "fan_min_on_time_set_service"
                      THEN "set_fan_min_on_time" ELSE "resume_program"
        IN /\ \A i \in Addressed(S) :
                /\ Cardinality({k \in DOMAIN calls :
                      calls[k].index = i /\ calls[k].method = method}) = 1
                /\ Cardinality({k \in DOMAIN calls : calls[k].index = i}) = 2
                /\ \E k \in DOMAIN calls :
                      /\ calls[k].index = i /\ calls[k].method = method
                      /\ k + 1 \in DOMAIN calls
                      /\ calls[k + 1] = Request("schedule_update_ha_state", i, <<TRUE>>)
                /\ update_without_throttle'[i]
           /\ \A i \in Indexes \ Addressed(S) :
                /\ \A k \in DOMAIN calls : calls[k].index # i
                /\ update_without_throttle'[i] = update_without_throttle[i]
           /\ Len(last'.requests) = Cardinality(Addressed(S))
           /\ thermostat' = thermostat ]_vars

\* A service call addressed only the second adapter, which alone was commanded.
C8_Witness ==
  /\ last.op = "resume_program_set_service"
  /\ last.arg[1] = Some({devices[2], "climate.other"})
  /\ Len(last.requests) = 1
  /\ last.requests[1].index = 1
  /\ update_without_throttle[1]
  /\ ~update_without_throttle[0]

\* C9: an update() whose unthrottled fetch raises keeps the flag set and the
\* snapshot in place; the flag is cleared only by an update() whose
\* unthrottled fetch completed; an update() that completes leaves it false.
C9_FailedFetchKeepsFlag ==
  [][ /\ (last'.op = "update" /\ update_without_throttle[last'.dev] /\ last'.raised
            => /\ last'.fetch = "no_throttle"
               /\ update_without_throttle'[last'.dev]
               /\ thermostat'[last'.dev] = thermostat[last'.dev])
      /\ (last'.op = "update" /\ ~last'.raised => ~update_without_throttle'[last'.dev])
      /\ \A i \in Indexes :
           (update_without_throttle[i] /\ ~update_without_throttle'[i])
             => /\ last'.op = "update" /\ last'.dev = i
                /\ last'.fetch = "no_throttle"
                /\ ~last'.raised ]_vars

\* An unthrottled update() has raised and the flag is still set.
C9_Witness ==
  /\ last.op = "update"
  /\ last.fetch = "no_throttle"
  /\ last.raised
  /\ update_without_throttle[last.dev]

\* set_temp_hold is reached by the operation just performed.
ReachesSetTempHold(op, t) ==
  \/ op.op = "set_temp_hold"
  \/ op.op = "set_hold_mode" /\ op.arg[1] = Some("temp") /\ current_hold_mode(t) # Some("temp")
  \/ /\ op.op = "set_temperature"
     /\ op.arg[1].temp # None /\ op.arg[1].low = None /\ op.arg[1].high = None

====
